---- MODULE Spec2Model ----
(***************************************************************************)
(* Model of api_collector.py: the paginated collector of the inventory     *)
(* history table.  The driver loop of main() requests pages of PAGE_SIZE   *)
(* records, accumulates them in all_data and, on leaving the loop, hands   *)
(* all_data to save_data_csv_chunked.                                      *)
(*                                                                         *)
(* A DataFrame is modelled by its rows.  Rows are not enumerated one by    *)
(* one: a run of consecutive rows of one page is a segment <<p, lo, hi>>,  *)
(* the rows lo .. hi-1 (0-based) of the page fetched as page p, and a      *)
(* DataFrame is the sequence of its segments in row order.                 *)
(***************************************************************************)
EXTENDS Integers, Sequences, FiniteSets, TLC

(* ---- program constants ------------------------------------------------ *)
REQUEST_DELAY == 15
PAGE_SIZE == 15000
MAX_PAGES == 47
rows_per_chunk == 400000
total_expected == 700000

(* ---- bounds of the model ---------------------------------------------- *)
\* how many times in one run the server may answer with more records than
\* the requested take
MaxOversize == 1

\* the last page on which it may do so
MaxOversizePage == 3

\* sizes of the upstream table the runs are checked for
Totals ==
    { 0, 1, PAGE_SIZE - 1, PAGE_SIZE, PAGE_SIZE + 1, 2 * PAGE_SIZE,
      4 * PAGE_SIZE + 7, rows_per_chunk, rows_per_chunk + 1,
      (MAX_PAGES - 1) * PAGE_SIZE, total_expected,
      (MAX_PAGES + 1) * PAGE_SIZE + 5 }

\* the tables that are also checked with mis-decoded text in their records
MojibakeTotals == { 1, PAGE_SIZE + 1, 2 * PAGE_SIZE }

UpstreamTexts(t) ==
    IF t \in MojibakeTotals THEN {"utf8", "mojibake"} ELSE {"utf8"}

VARIABLES
    pc,              \* position of main(): loop, fetching, handle, sleep,
                     \* advance, persist, done
    page_number,     \* main: page_number
    has_more_pages,  \* main: has_more_pages
    df_page,         \* main: df_page, None or the page's DataFrame
    all_data,        \* main: all_data
    saved_files,     \* the files written under data/
    requests,        \* the GET requests issued so far, <<skip, take>> each
    resp,            \* the server's answer to the last request
    total,           \* size of the upstream table
    upstream_text,   \* how the text fields of the upstream records read:
                     \* "utf8", or "mojibake" (UTF-8 decoded as Latin-1)
    oversized,       \* number of answers longer than the take so far
    waits,           \* the time.sleep calls so far: the seconds of each
    messages,        \* what main() printed about how the loop went
    interrupted,     \* a KeyboardInterrupt was raised inside the try block
    writer_calls     \* number of calls of save_data_csv_chunked

vars == << pc, page_number, has_more_pages, df_page, all_data, saved_files,
          requests, resp, total, upstream_text, oversized, waits, messages,
          interrupted, writer_calls >>

(* ---- arithmetic ------------------------------------------------------- *)
Min(a, b) == IF a <= b THEN a ELSE b
Max(a, b) == IF a >= b THEN a ELSE b
CeilDiv(a, b) == (a + b - 1) \div b

(* ---- DataFrames ------------------------------------------------------- *)
None == << >>

\* len(df)
RECURSIVE DfLen(_)
DfLen(df) ==
    IF df = << >> THEN 0
    ELSE (Head(df)[3] - Head(df)[2]) + DfLen(Tail(df))

\* df.empty
DfEmpty(df) == DfLen(df) = 0

\* df.iloc[start:end]: the rows start .. end-1 of df, clipped to the frame
RECURSIVE Iloc(_, _, _)
Iloc(df, start, end) ==
    IF df = << >> \/ end <= 0 \/ start >= end THEN << >>
    ELSE LET s  == Head(df)
             n  == s[3] - s[2]
             lo == Max(start, 0)
             hi == Min(end, n)
             rest == Iloc(Tail(df), start - n, end - n)
         IN  IF lo < hi THEN << << s[1], s[2] + lo, s[2] + hi >> >> \o rest
             ELSE rest

Concat_front(a, b) == b \o a

\* pd.concat([a, b], ignore_index=True)
Concat(a, b) == a \o b

\* the DataFrame of the n records of page p
PageFrame(p, n) == << << p, 0, n >> >>

\* the text fields of a page's DataFrame, given the text of the records it
\* is built from: df = pd.DataFrame(message_array) takes the values as they
\* are, and only load_timestamp and page_number are added
PageText(text) == text

\* how the text fields of the rows of df read
DataText(df) == IF DfEmpty(df) THEN {} ELSE {PageText(upstream_text)}

(* ---- the server -------------------------------------------------------- *)
\* An answer of the server to one GET.  kind is how the request ended:
\* "timeout", "conn_error", "http_error" (raise_for_status), "bad_json"
\* (response.json() raises) or "json".  For "json" the decoded body is
\* described by: type ("dict" or "list"), key (the key of the dict that holds
\* the records, "none" when there is none), islist (the value under key is a
\* list), n (the number of records) and cols (the records have fields).
Answer(kind, type, key, islist, n, cols) ==
    [kind |-> kind, type |-> type, key |-> key, islist |-> islist,
     n |-> n, cols |-> cols]

NoAnswer == Answer("none", "na", "none", FALSE, 0, FALSE)

\* the records the upstream table holds for the window skip .. skip+take-1
ServerPage(skip, take) == Min(take, Max(0, total - skip))

\* the preferred shape {"message": [...]} holding the window asked for
HonestAnswer(skip, take) ==
    Answer("json", "dict", "message", TRUE, ServerPage(skip, take), TRUE)

\* the same with more records than the take
OversizeAnswer(skip, take) ==
    Answer("json", "dict", "message", TRUE, take + 1, TRUE)

\* the whole rest of the table at once, the take ignored
BulkAnswer(skip, take) ==
    Answer("json", "dict", "message", TRUE, Max(take + 1, total - skip), TRUE)

\* everything else a request can end with
FaultyAnswers(skip, take) ==
    LET n == ServerPage(skip, take)
    IN  { Answer("timeout", "na", "none", FALSE, 0, FALSE),
          Answer("conn_error", "na", "none", FALSE, 0, FALSE),
          Answer("http_error", "na", "none", FALSE, 0, FALSE),
          Answer("bad_json", "na", "none", FALSE, 0, FALSE),
          Answer("json", "dict", "message", FALSE, 0, FALSE),
          Answer("json", "dict", "none", FALSE, 0, FALSE),
          Answer("json", "dict", "data", TRUE, n, TRUE),
          Answer("json", "dict", "results", TRUE, n, TRUE),
          Answer("json", "dict", "items", TRUE, n, TRUE),
          Answer("json", "list", "none", TRUE, n, TRUE),
          Answer("json", "dict", "message", TRUE, Max(n, 1), FALSE) }

(* ---- fetch_data_page -------------------------------------------------- *)
\* a Python list of n elements, or None
PyList(n) == [isNone |-> FALSE, len |-> n]
PyNone == [isNone |-> TRUE, len |-> 0]

\* Python's `not x` for a list or None
Falsy(x) == x.isNone \/ x.len = 0

extract_message_data_compat(data) ==
    IF data.islist THEN PyList(data.n) ELSE PyNone

\* if isinstance(data, dict) and 'message' in data: ... else: return None
extract_message_data(data) ==
    IF data.type = "dict" /\ data.key = "message"
    THEN IF data.islist THEN PyList(data.n) ELSE PyNone
    ELSE PyNone

HasMore_equal(n, expected_records) == n = expected_records

\* has_more_pages = len(df) >= expected_records
HasMore(n, expected_records) == n >= expected_records

\* fetch_data_page(url, name, page_number, expected_records), given the
\* server's answer: << df, has_more_pages >>
fetch_data_page(answer, page, expected_records) ==
    CASE answer.kind = "timeout" -> << None, TRUE >>
      [] answer.kind \in {"conn_error", "http_error", "bad_json"} ->
            << None, FALSE >>
      [] OTHER ->
            LET message_array == extract_message_data(answer)
            IN  IF Falsy(message_array) THEN << None, FALSE >>
                ELSE IF ~answer.cols THEN << None, FALSE >>
                ELSE << PageFrame(page, message_array.len),
                        HasMore(message_array.len, expected_records) >>

(* ---- save_data_csv_chunked -------------------------------------------- *)
TotalChunks_floor(df) == DfLen(df) \div rows_per_chunk

\* total_chunks = (len(df) // rows_per_chunk) + 1
TotalChunks(df) == (DfLen(df) \div rows_per_chunk) + 1

ChunkFilename_plain(chunk_num, total_chunks) ==
    IF total_chunks = 1
    THEN << "Historico", "timestamp" >>
    ELSE << "Historico", "timestamp", "part", chunk_num + 1, "of", total_chunks >>

\* f"{base_filename}_part{chunk_num + 1}_of{total_chunks}.csv"
ChunkFilename(chunk_num, total_chunks) ==
    << "Historico", "timestamp", "part", chunk_num + 1, "of", total_chunks >>

\* the files written for the chunks chunk_num .. total_chunks-1
RECURSIVE SaveChunks(_, _, _)
SaveChunks(df, chunk_num, total_chunks) ==
    IF chunk_num >= total_chunks THEN << >>
    ELSE LET start_idx == chunk_num * rows_per_chunk
             end_idx   == Min((chunk_num + 1) * rows_per_chunk, DfLen(df))
             chunk_df  == Iloc(df, start_idx, end_idx)
             rest      == SaveChunks(df, chunk_num + 1, total_chunks)
         IN  IF ~DfEmpty(chunk_df)
             THEN << [name |-> ChunkFilename(chunk_num, total_chunks),
                      rows |-> chunk_df] >> \o rest
             ELSE rest

save_data_csv_chunked(df) == SaveChunks(df, 0, TotalChunks(df))

(* ---- main ------------------------------------------------------------- *)
Init ==
    /\ pc = "loop"
    /\ page_number = 1
    /\ has_more_pages = TRUE
    /\ df_page = None
    /\ all_data = << >>
    /\ saved_files = << >>
    /\ requests = << >>
    /\ resp = NoAnswer
    /\ total \in Totals
    /\ upstream_text \in UpstreamTexts(total)
    /\ oversized = 0
    /\ waits = << >>
    /\ messages = << >>
    /\ interrupted = FALSE
    /\ writer_calls = 0

Skip_next(page) == page * PAGE_SIZE

Skip_from_one(page) == (page - 1) * PAGE_SIZE + 1

\* query_params["skip"] = (page_number - 1) * PAGE_SIZE
Skip(page) == (page - 1) * PAGE_SIZE

LoopCondition_short == has_more_pages /\ page_number < MAX_PAGES

\* while has_more_pages and page_number <= MAX_PAGES
LoopCondition == has_more_pages /\ page_number <= MAX_PAGES

\* the head of the loop: leave it, or build the URL and send the request
LoopTop ==
    /\ pc = "loop"
    /\ IF LoopCondition
       THEN /\ requests' = Append(requests, << Skip(page_number), PAGE_SIZE >>)
            /\ pc' = "fetching"
       ELSE /\ pc' = "persist"
            /\ UNCHANGED requests
    /\ UNCHANGED << page_number, has_more_pages, df_page, all_data,
                   saved_files, resp, total, upstream_text, oversized, waits,
                   messages, interrupted, writer_calls >>

\* df_page, has_more_pages = fetch_data_page(url, name, page_number, PAGE_SIZE)
Return(answer) ==
    LET r == fetch_data_page(answer, page_number, PAGE_SIZE)
    IN  /\ resp' = answer
        /\ df_page' = r[1]
        /\ has_more_pages' = r[2]
        /\ pc' = "handle"

FetchHonest ==
    /\ pc = "fetching"
    /\ LET q == requests[Len(requests)]
       IN  Return(HonestAnswer(q[1], q[2]))
    /\ UNCHANGED << page_number, all_data, saved_files, requests, total,
                   upstream_text, oversized, waits, messages, interrupted,
                   writer_calls >>

FetchOversize ==
    /\ pc = "fetching"
    /\ oversized < MaxOversize
    /\ page_number <= MaxOversizePage
    /\ oversized' = oversized + 1
    /\ LET q == requests[Len(requests)]
       IN  \E a \in {OversizeAnswer(q[1], q[2]), BulkAnswer(q[1], q[2])} :
               Return(a)
    /\ UNCHANGED << page_number, all_data, saved_files, requests, total,
                   upstream_text, waits, messages, interrupted,
                   writer_calls >>

FetchFaulty ==
    /\ pc = "fetching"
    /\ LET q == requests[Len(requests)]
       IN  \E a \in FaultyAnswers(q[1], q[2]) : Return(a)
    /\ UNCHANGED << page_number, all_data, saved_files, requests, total,
                   upstream_text, oversized, waits, messages, interrupted,
                   writer_calls >>

\* what main() prints about the page it got, r = << df_page, has_more_pages >>:
\* nothing for a page after which it waits ("Esperando ..."), "Se alcanzó el
\* final de los datos", or "Error en página ..., deteniendo la consulta"
PageReport(r) ==
    IF r[1] # None /\ ~DfEmpty(r[1])
    THEN IF r[2] THEN << >> ELSE << "fin_de_datos" >>
    ELSE << "error_en_pagina" >>

HandlePage_failed_continue ==
    /\ pc' = "advance"
    /\ UNCHANGED all_data

HandlePage_failed_retry ==
    /\ pc' = "loop"
    /\ UNCHANGED all_data

\* the else branch: print the error and break
HandlePage_failed ==
    /\ pc' = "persist"
    /\ UNCHANGED all_data

\* if df_page is not None and not df_page.empty: ... else: break
HandlePage ==
    /\ pc = "handle"
    /\ messages' = messages \o PageReport(<< df_page, has_more_pages >>)
    /\ IF df_page # None /\ ~DfEmpty(df_page)
       THEN /\ all_data' = Concat(all_data, df_page)
            /\ pc' = IF has_more_pages THEN "sleep" ELSE "advance"
       ELSE HandlePage_failed
    /\ UNCHANGED << page_number, has_more_pages, df_page, saved_files,
                   requests, resp, total, upstream_text, oversized, waits,
                   interrupted, writer_calls >>

Sleep_skipped ==
    /\ pc = "sleep"
    /\ pc' = "advance"
    /\ UNCHANGED << page_number, has_more_pages, df_page, all_data,
                   saved_files, requests, resp, total, upstream_text,
                   oversized, messages, interrupted, writer_calls, waits >>

\* time.sleep(REQUEST_DELAY)
Sleep ==
    /\ pc = "sleep"
    /\ waits' = Append(waits, REQUEST_DELAY)
    /\ pc' = "advance"
    /\ UNCHANGED << page_number, has_more_pages, df_page, all_data,
                   saved_files, requests, resp, total, upstream_text,
                   oversized, messages, interrupted, writer_calls >>

Advance_nocap ==
    /\ pc = "advance"
    /\ page_number' = page_number + 1
    /\ pc' = "loop"
    /\ UNCHANGED << has_more_pages, df_page, all_data, saved_files, requests,
                   resp, total, upstream_text, oversized, waits, interrupted,
                   writer_calls, messages >>

\* page_number += 1; if len(all_data) >= total_expected: break
Advance ==
    /\ pc = "advance"
    /\ page_number' = page_number + 1
    /\ IF DfLen(all_data) >= total_expected
       THEN /\ messages' = Append(messages, "meta_alcanzada")
            /\ pc' = "persist"
       ELSE /\ pc' = "loop"
            /\ UNCHANGED messages
    /\ UNCHANGED << has_more_pages, df_page, all_data, saved_files, requests,
                   resp, total, upstream_text, oversized, waits, interrupted,
                   writer_calls >>

KeyboardInterrupt_uncaught ==
    /\ pc \in {"loop", "fetching", "handle", "sleep", "advance"}
    /\ interrupted' = TRUE
    /\ pc' = "done"
    /\ UNCHANGED << page_number, has_more_pages, df_page, all_data,
                   saved_files, requests, resp, total, upstream_text,
                   oversized, waits, messages, writer_calls >>

\* except KeyboardInterrupt: raised anywhere inside the try block
KeyboardInterrupt ==
    /\ pc \in {"loop", "fetching", "handle", "sleep", "advance"}
    /\ interrupted' = TRUE
    /\ messages' = Append(messages, "interrumpida")
    /\ pc' = "persist"
    /\ UNCHANGED << page_number, has_more_pages, df_page, all_data,
                   saved_files, requests, resp, total, upstream_text,
                   oversized, waits, writer_calls >>

\* if not all_data.empty: saved_files = save_data_csv_chunked(all_data, name)
Persist ==
    /\ pc = "persist"
    /\ IF ~DfEmpty(all_data)
       THEN /\ saved_files' = save_data_csv_chunked(all_data)
            /\ writer_calls' = writer_calls + 1
            /\ messages' = Append(messages,
                  IF save_data_csv_chunked(all_data) # << >>
                  THEN "completado" ELSE "error_al_guardar")
       ELSE /\ messages' = Append(messages, "no_datos")
            /\ UNCHANGED << saved_files, writer_calls >>
    /\ pc' = "done"
    /\ UNCHANGED << page_number, has_more_pages, df_page, all_data, requests,
                   resp, total, upstream_text, oversized, waits,
                   interrupted >>

Next ==
    \/ LoopTop
    \/ FetchHonest
    \/ FetchOversize
    \/ FetchFaulty
    \/ HandlePage
    \/ Sleep
    \/ Advance
    \/ KeyboardInterrupt
    \/ Persist

Spec == Init /\ [][Next]_vars

\* a step of main() itself, as opposed to an interrupt from outside
ProgramStep ==
    \/ LoopTop
    \/ FetchHonest
    \/ FetchFaulty
    \/ HandlePage
    \/ Sleep
    \/ Advance
    \/ Persist

(* ---- vocabulary of the properties ------------------------------------- *)
Range(f) == { f[i] : i \in DOMAIN f }

\* the answer has the preferred shape and its records have fields
WellFormed(a) ==
    a.kind = "json" /\ a.type = "dict" /\ a.key = "message" /\ a.islist /\ a.cols

\* the run so far saw no error and no interrupt, and every answer was the
\* window of the upstream table that was asked for (a faulty answer ends the
\* loop, so it can only be the last one)
Clean == ~interrupted /\ oversized = 0 /\ WellFormed(resp)

\* df consists of the whole pages 1 .. k, in this order
IsPages(df, k) ==
    /\ Len(df) = k
    /\ \A i \in 1 .. k : df[i][1] = i /\ df[i][2] = 0 /\ df[i][3] > 0

\* adjacent segments that continue one another, written as one segment
RECURSIVE Coalesce(_)
Coalesce(df) ==
    IF Len(df) < 2 THEN df
    ELSE LET a == df[1]
             b == df[2]
         IN  IF a[1] = b[1] /\ a[3] = b[2]
             THEN Coalesce(<< << a[1], a[2], b[3] >> >> \o Tail(Tail(df)))
             ELSE << a >> \o Coalesce(Tail(df))

\* the rows of the files, in the order the files were written
RECURSIVE FileRows(_)
FileRows(files) ==
    IF files = << >> THEN << >>
    ELSE Head(files).rows \o FileRows(Tail(files))

Output(files) == Coalesce(FileRows(files))

(* ---- C1 ---------------------------------------------------------------- *)
\* C1: a request timeout on a page does not end the loop: the step of main()
\* that handles it leaves all_data unchanged and stays inside the loop (it
\* does not go to the persistence step), unless an interrupt arrives.
C1_TimeoutContinues ==
    [][ (pc = "handle" /\ resp.kind = "timeout" /\ ~interrupted')
            => (all_data' = all_data /\ pc' \in {"sleep", "advance", "loop"})
      ]_vars

(* ---- C2 ---------------------------------------------------------------- *)
\* C2 (as stated): a run with no error and no interrupt over a table of
\* `total` records issues exactly ceil(total / PAGE_SIZE) fetches.
C2_CeilFetches ==
    (pc = "done" /\ Clean) => Len(requests) = CeilDiv(total, PAGE_SIZE)

\* C2 (amended): such a run issues exactly floor(total / PAGE_SIZE) + 1
\* fetches (one more than ceil when total is a multiple of PAGE_SIZE: the page
\* that comes back empty), but never more than MAX_PAGES nor more than the
\* ceil(total_expected / PAGE_SIZE) full pages that reach the expected total;
\* at the end of the run the last request is the one of that final page.
C2_FetchCount ==
    (pc = "done" /\ Clean) =>
        /\ Len(requests) =
              Min((total \div PAGE_SIZE) + 1,
                  Min(MAX_PAGES, CeilDiv(total_expected, PAGE_SIZE)))
        /\ resp = HonestAnswer(Skip(Len(requests)), PAGE_SIZE)

C2_Witness ==
    pc = "done" /\ Clean /\ total = 2 * PAGE_SIZE /\ Len(requests) = 3

(* ---- C3 ---------------------------------------------------------------- *)
\* C3: for a page fetched successfully with n records, has_more_pages is TRUE
\* exactly when n >= PAGE_SIZE (so also when n > PAGE_SIZE), and the loop
\* then requests the next page unless a cap or an interrupt ends it.
C3_Signal ==
    /\ (pc = "handle" /\ df_page # None)
          => /\ DfLen(df_page) = resp.n
             /\ has_more_pages <=> (resp.n >= PAGE_SIZE)
    /\ (pc = "fetching" /\ Len(requests) > 1)
          => /\ df_page # None
             /\ DfLen(df_page) >= PAGE_SIZE

C3_Witness ==
    /\ pc = "fetching"
    /\ Len(requests) = 2
    /\ df_page # None
    /\ DfLen(df_page) > PAGE_SIZE

(* ---- C4 ---------------------------------------------------------------- *)
\* C4: an interrupt raised anywhere in the loop (at its head, during a fetch,
\* while the page is handled, during the wait, at the increment) leads
\* straight to the persistence step; from the interrupt on all_data no longer
\* changes, it holds exactly the whole pages accumulated before the
\* interrupt, and when it is not empty the writer is called once and the
\* files hold exactly its rows, in order.
C4_InterruptPersists ==
    [][ /\ (interrupted' /\ ~interrupted)
            => /\ pc' = "persist"
               /\ all_data' = all_data
               /\ IsPages(all_data, Len(all_data))
               /\ Len(all_data) \in {page_number - 1, page_number}
        /\ (interrupted /\ pc = "persist")
            => /\ pc' = "done"
               /\ all_data' = all_data
               /\ requests' = requests
               /\ Output(saved_files') = all_data
               /\ (all_data # << >>) => (writer_calls' = 1 /\ saved_files' # << >>)
      ]_vars

C4_Witness ==
    /\ pc = "done"
    /\ interrupted
    /\ IsPages(all_data, 2)
    /\ Len(requests) = 3
    /\ DfLen(Output(saved_files)) = 2 * PAGE_SIZE

(* ---- C5 ---------------------------------------------------------------- *)
\* a connection error, a non-2xx status, a body that is not JSON, or a JSON
\* body in which no record array can be located
Fatal(a) ==
    \/ a.kind \in {"conn_error", "http_error", "bad_json"}
    \/ a.kind = "json" /\ ~a.islist

\* C5: when the fetch of page k ends with a fatal error, main() goes to the
\* persistence step without changing all_data and without another request,
\* and the run ends with k requests issued and with files holding exactly the
\* rows of the pages 1 .. k-1.
C5_FatalHalts ==
    [][ /\ (pc = "handle" /\ Fatal(resp))
            => /\ pc' = "persist"
               /\ all_data' = all_data
               /\ requests' = requests
        /\ (pc' = "done" /\ Fatal(resp'))
            => /\ Len(requests') = page_number'
               /\ IsPages(all_data', page_number' - 1)
               /\ Output(saved_files') = all_data'
      ]_vars

C5_Witness ==
    /\ pc = "done"
    /\ ~interrupted
    /\ resp.kind = "conn_error"
    /\ Len(requests) = 3
    /\ IsPages(all_data, 2)
    /\ Output(saved_files) = all_data

(* ---- C6 ---------------------------------------------------------------- *)
\* the error kind of an answer; "none" for a page with records
ErrorKind(a) ==
    CASE a.kind = "timeout" -> "TransportTimeout"
      [] a.kind \in {"conn_error", "http_error"} -> "TransportError"
      [] a.kind = "bad_json" -> "MalformedResponse"
      [] a.kind = "json" /\ ~a.islist -> "MalformedResponse"
      [] a.kind = "json" /\ a.islist /\ a.n = 0 -> "EmptyPage"
      [] OTHER -> "none"

\* the kinds that are errors (an empty page is none)
ErrorKinds == {"TransportTimeout", "TransportError", "MalformedResponse"}

\* the answers a request of the run can get
Answers(q) ==
    FaultyAnswers(q[1], q[2])
        \cup {HonestAnswer(q[1], q[2]), OversizeAnswer(q[1], q[2]),
              BulkAnswer(q[1], q[2])}

\* C6: a run halted by an error reports the exact kind of that error: what
\* main() prints for the answer that halted the run differs from what it
\* prints for an answer of any other kind.
C6_ExactErrorKind ==
    (pc = "done" /\ ~interrupted /\ ErrorKind(resp) \in ErrorKinds) =>
        \A a \in Answers(requests[Len(requests)]) :
            ErrorKind(a) # ErrorKind(resp) =>
                PageReport(fetch_data_page(a, page_number, PAGE_SIZE))
                    # PageReport(fetch_data_page(resp, page_number, PAGE_SIZE))

(* ---- C7 ---------------------------------------------------------------- *)
\* a syntactically valid answer with zero records
EmptyPage(a) == WellFormed(a) /\ a.n = 0

TransportFailure == Answer("conn_error", "na", "none", FALSE, 0, FALSE)

\* C7: the result of fetch_data_page for a valid answer with zero records
\* differs from its result for a transport failure, and main() does not
\* report the page as failed.
C7_EmptyPageIsStop ==
    (EmptyPage(resp) /\ pc \in {"handle", "persist", "done"}) =>
        /\ << df_page, has_more_pages >>
              # fetch_data_page(TransportFailure, page_number, PAGE_SIZE)
        /\ "error_en_pagina" \notin Range(messages)

(* ---- C8 ---------------------------------------------------------------- *)
\* C8: at the end of a run the files are ceil(N / rows_per_chunk) in number
\* (none when N = 0) for N = len(all_data); file i holds
\* min(rows_per_chunk, N - (i-1) * rows_per_chunk) rows, at most
\* rows_per_chunk, and is the slice of all_data that starts at row
\* (i-1) * rows_per_chunk; the files in order are all_data.
C8_Chunks ==
    pc = "done" =>
        LET N == DfLen(all_data)
            M == Len(saved_files)
        IN  /\ M = CeilDiv(N, rows_per_chunk)
            /\ \A i \in 1 .. M :
                  /\ DfLen(saved_files[i].rows)
                        = Min(rows_per_chunk, N - (i - 1) * rows_per_chunk)
                  /\ DfLen(saved_files[i].rows) <= rows_per_chunk
                  /\ Coalesce(FileRows(SubSeq(saved_files, 1, i)))
                        = Iloc(all_data, 0, Min(i * rows_per_chunk, N))
            /\ DfLen(FileRows(saved_files)) = N
            /\ Output(saved_files) = all_data

C8_Witness ==
    /\ pc = "done"
    /\ Len(saved_files) = 2
    /\ DfLen(saved_files[1].rows) = rows_per_chunk
    /\ DfLen(saved_files[2].rows) > 0

(* ---- C9 ---------------------------------------------------------------- *)
HasPartSuffix(name) == Len(name) > 2

\* C9 (as stated): the file names carry a partN_ofM suffix only when more
\* than one file is written; a single file has none.
C9_SuffixOnlyIfSeveral ==
    pc = "done" =>
        \A i \in DOMAIN saved_files :
            HasPartSuffix(saved_files[i].name) <=> (Len(saved_files) > 1)

\* C9 (amended): every file name carries the suffix part<i>_of<M>, i the
\* 1-based index of the chunk and M = len(all_data) // rows_per_chunk + 1,
\* also when exactly one file is written.
C9_AlwaysSuffix ==
    pc = "done" =>
        \A i \in DOMAIN saved_files :
            saved_files[i].name =
                << "Historico", "timestamp", "part", i, "of",
                   (DfLen(all_data) \div rows_per_chunk) + 1 >>

C9_Witness ==
    /\ pc = "done"
    /\ Len(saved_files) = 1
    /\ DfLen(all_data) < rows_per_chunk
    /\ HasPartSuffix(saved_files[1].name)

(* ---- C10 --------------------------------------------------------------- *)
\* C10: the i-th request of a run asks for skip = (i - 1) * PAGE_SIZE and
\* take = PAGE_SIZE: the offsets are 0, PAGE_SIZE, 2 * PAGE_SIZE, ... with no
\* offset repeated or left out, and the request of page_number is the last.
C10_Offsets ==
    /\ \A i \in DOMAIN requests :
          requests[i] = << (i - 1) * PAGE_SIZE, PAGE_SIZE >>
    /\ Len(requests) \in {page_number - 1, page_number}
    /\ pc \in {"fetching", "handle", "sleep"} => Len(requests) = page_number

C10_Witness ==
    /\ Len(requests) = 3
    /\ requests[3][1] = 2 * PAGE_SIZE
    /\ pc = "fetching"

(* ---- C11 --------------------------------------------------------------- *)
\* the numbers of records the request of page i can bring
PageSizes(i) ==
    { ServerPage(Skip(i), PAGE_SIZE), PAGE_SIZE + 1,
      Max(PAGE_SIZE + 1, total - Skip(i)) }

\* the number of pages fetched successfully and accumulated so far
Accumulated ==
    IF pc \in {"sleep", "advance"} THEN page_number ELSE Len(all_data)

\* C11: all_data is at every point the whole pages fetched successfully so
\* far, in fetch order, each with the number of records it was received
\* with; a step never changes the rows all_data already holds, and the step
\* that accumulates a page appends exactly that page, so that len(all_data)
\* grows by the size of the page.
C11_Concatenation ==
    [][ /\ IsPages(all_data', Accumulated')
        /\ Len(all_data') \in {page_number' - 1, page_number'}
        /\ \A i \in DOMAIN all_data' : all_data'[i][3] \in PageSizes(i)
        /\ Len(all_data') >= Len(all_data)
        /\ SubSeq(all_data', 1, Len(all_data)) = all_data
        /\ (pc = "handle" /\ df_page # None /\ ~interrupted')
              => /\ all_data' = all_data \o << << page_number, 0, resp.n >> >>
                 /\ DfLen(all_data') = DfLen(all_data) + resp.n
        /\ (pc # "handle" \/ df_page = None \/ interrupted')
              => all_data' = all_data
      ]_vars

C11_Witness ==
    /\ pc = "sleep"
    /\ Len(all_data) = 3
    /\ DfLen(all_data) = 3 * PAGE_SIZE + 1
    /\ all_data[3] = << 3, 0, PAGE_SIZE >>

(* ---- C12 --------------------------------------------------------------- *)
\* C12: every request but the first is issued after exactly one wait, of
\* REQUEST_DELAY seconds, since the request before it: while request number
\* k is in flight or being handled, k - 1 waits have been made, and all
\* waits last REQUEST_DELAY seconds.
C12_OneWaitBetweenFetches ==
    /\ \A i \in DOMAIN waits : waits[i] = REQUEST_DELAY
    /\ pc \in {"fetching", "handle", "sleep"} => Len(waits) = Len(requests) - 1
    /\ Len(requests) = 0 => waits = << >>
    /\ Len(requests) > 0 => Len(waits) \in {Len(requests) - 1, Len(requests)}

C12_Witness ==
    /\ pc = "fetching"
    /\ Len(requests) = 3
    /\ waits = << REQUEST_DELAY, REQUEST_DELAY >>

(* ---- C13 --------------------------------------------------------------- *)
\* a bare top-level array, or an object with the records under data, results
\* or items
CompatShape(a) ==
    /\ a.kind = "json"
    /\ a.islist
    /\ a.cols
    /\ \/ a.type = "list"
       \/ a.type = "dict" /\ a.key \in {"data", "results", "items"}

Normalize(text) == IF text = "mojibake" THEN "utf8" ELSE text

\* C14: every page has passed through the Encoding Normalizer when it is
\* accumulated: the text of the rows of all_data is the normalized text of
\* the records received, which normalizing again leaves as it is.
C14_PagesNormalized ==
    \A t \in DataText(all_data) :
        /\ t = Normalize(upstream_text)
        /\ Normalize(t) = t

(* ---- C15 --------------------------------------------------------------- *)
\* C15: in every file name part<i>_of<M> of a run, M is the number of files
\* written, ceil(len(all_data) / rows_per_chunk).
C15_PartTotalIsFileCount ==
    pc = "done" =>
        \A i \in DOMAIN saved_files :
            /\ saved_files[i].name[6] = Len(saved_files)
            /\ saved_files[i].name[6] = CeilDiv(DfLen(all_data), rows_per_chunk)

(* ---- C16 --------------------------------------------------------------- *)
InLoop == pc \in {"loop", "fetching", "handle", "sleep", "advance"}

\* the steps of one iteration that are still ahead at pc
StepsAhead ==
    CASE pc = "loop" -> 4
      [] pc = "fetching" -> 3
      [] pc = "handle" -> 2
      [] pc = "sleep" -> 1
      [] OTHER -> 0

\* a bound on the steps main() still takes
Rank ==
    CASE pc = "done" -> 0
      [] pc = "persist" -> 1
      [] OTHER -> 2 + 5 * (MAX_PAGES + 1 - page_number) + StepsAhead

\* C16: whatever the server answers, the fetch loop cannot go on forever:
\* inside the loop main() always has a next step to take, every step taken
\* there lowers Rank, and Rank never falls below 0; so after at most
\* Rank steps the run has left the loop for the persistence step, and after
\* the persistence step it is over.
C16_Terminates ==
    [][ /\ InLoop => /\ Rank' < Rank
                     /\ Rank' >= 0
                     /\ pc' \in {"loop", "fetching", "handle", "sleep",
                                 "advance", "persist"}
        /\ pc = "persist" => pc' = "done"
      ]_vars

C16_Witness ==
    /\ pc = "persist"
    /\ ~interrupted
    /\ Len(requests) = MAX_PAGES
    /\ Len(all_data) = MAX_PAGES

(* ---- C17 --------------------------------------------------------------- *)
\* C17: a run never issues more than MAX_PAGES requests and never asks for
\* an offset beyond (MAX_PAGES - 1) * PAGE_SIZE.
C17_PageCeiling ==
    /\ Len(requests) <= MAX_PAGES
    /\ page_number <= MAX_PAGES + 1
    /\ \A i \in DOMAIN requests : requests[i][1] <= (MAX_PAGES - 1) * PAGE_SIZE

C17_Witness ==
    /\ pc = "fetching"
    /\ Len(requests) = MAX_PAGES
    /\ requests[MAX_PAGES][1] = (MAX_PAGES - 1) * PAGE_SIZE
    /\ DfLen(all_data) >= (MAX_PAGES - 1) * PAGE_SIZE

(* ---- C18 --------------------------------------------------------------- *)
\* C18: in a run that is not interrupted every wait is followed by a request:
\* once the loop is left, there are fewer waits than requests.
C18_NoWaitAfterLastFetch ==
    (pc \in {"persist", "done"} /\ ~interrupted /\ Len(requests) > 0)
        => Len(waits) = Len(requests) - 1

(* ---- C19 --------------------------------------------------------------- *)
\* the number of rows of the last page of df
LastPageLen(df) == df[Len(df)][3] - df[Len(df)][2]

\* C19: no request is issued once all_data holds total_expected rows or
\* more, also after a full page; so when the loop is left all_data holds
\* fewer than total_expected rows plus those of the page accumulated last.
C19_ExpectedTotalCap ==
    /\ pc = "fetching" => DfLen(all_data) < total_expected
    /\ (pc \in {"loop", "persist", "done"} /\ all_data # << >>)
          => DfLen(all_data) - LastPageLen(all_data) < total_expected
    /\ (pc = "loop" /\ ~DfEmpty(all_data)) => DfLen(all_data) < total_expected

C19_Witness ==
    /\ pc = "persist"
    /\ ~interrupted
    /\ has_more_pages
    /\ DfLen(all_data) >= total_expected
    /\ Len(requests) < MAX_PAGES
    /\ Len(requests) > 1

====
